---- MODULE Spec2Model ----
(***************************************************************************)
(* Model of scripts/prepare_TAT.py: the audio/transcript pairing resolver, *)
(* the variant-specific text normalizer and validator, and the manifest    *)
(* builder (main).                                                         *)
(*                                                                         *)
(* A text is a sequence of characters; a character is a one-element        *)
(* string.  Non-ASCII characters are written by code point ("U+FF08" is    *)
(* the full-width left parenthesis).                                       *)
(***************************************************************************)
EXTENDS Integers, Sequences, FiniteSets, TLC

(* ------------------------------ bounds ------------------------------- *)

\* longest raw transcript drawn in the text specification
MaxLen == 3

\* most transcript records in one run of main
MaxRecords == 3

(* ---------------------------- constants ------------------------------ *)

TAILO == "tailo"

TAILONUM == "tailonum"

TAIWEN == "taiwen"

\* an optional value: None is the empty sequence, a value x is <<x>>
None == <<>>

Some(x) == <<x>>

\* the outcome of a call: the value it returned, or the exception it raised
NoException == "none"

IndexError == "IndexError"

NotImplementedError == "NotImplementedError"

ValueError == "ValueError"

Returned(x) == [raises |-> NoException, value |-> x]

Raised(e) == [raises |-> e, value |-> <<>>]

\* CLEAN_MAPPING[TAILONUM], in dictionary order: bad character, replacement
CLEAN_MAPPING_TAILONUM ==
  << <<"U+FE56", <<"?">> >>,
     <<"U+FF01", <<"!">> >>,
     <<"U+FF05", <<"%">> >>,
     <<"U+FF08", <<"(">> >>,
     <<"U+FF09", <<")">> >>,
     <<"U+FF0C", <<",">> >>,
     <<"U+FF1A", <<":">> >>,
     <<"U+FF1B", <<";">> >>,
     <<"U+FF1F", <<"?">> >>,
     <<"U+2014", <<"-", "-">> >>,
     <<"U+2500", <<"-">> >> >>

\* CLEAN_MAPPING[TAIWEN], in dictionary order
CLEAN_MAPPING_TAIWEN ==
  << <<"U+FE56", <<"U+FF1F">> >>,
     <<"?", <<"U+FF1F">> >>,
     <<"!", <<"U+FF01">> >>,
     <<"(", <<"U+FF08">> >>,
     <<")", <<"U+FF09">> >>,
     <<",", <<"U+FF0C">> >>,
     <<":", <<"U+FF1A">> >>,
     <<";", <<"U+FF1B">> >> >>

CLEAN_MAPPING(transcript_type) ==
  IF transcript_type = TAILONUM THEN CLEAN_MAPPING_TAILONUM
  ELSE CLEAN_MAPPING_TAIWEN

ACCEPTABLE_CHARS ==
  {"0", "1", "2", "3", "4", "5", "6", "7", "8", "9"}
  \cup {"A", "B", "C", "D", "E", "F", "G", "H", "I", "J", "K", "L", "M",
        "N", "O", "P", "Q", "R", "S", "T", "U", "V", "W", "X", "Y", "Z"}
  \cup {"a", "b", "c", "d", "e", "f", "g", "h", "i", "j", "k", "l", "m",
        "n", "o", "p", "q", "r", "s", "t", "u", "v", "w", "x", "y", "z"}
  \cup {"U+00E0", "U+00E1", "U+00E9", "U+00EC", "U+00EE", "U+00F2",
        "U+00FA", "U+0101", "U+014D"}
  \cup {" "}
  \cup {"!", "\"", "%", "(", ")", "+", ",", "-", ".", "/", ":", ";", "=",
        "?", "_", "~"}
  \cup {"U+2018", "U+2019", "U+201C", "U+201D", "'"}
  \cup {"U+2026", "U+22EF"}
  \cup {"U+3001", "U+3002", "U+300E", "U+300F"}
  \cup {"U+FF0D"}

\* the characters str.strip() removes from both ends
Whitespace == {" ", "\t", "\n", "\r", "U+3000"}

(* ------------------------- string primitives ------------------------- *)

\* str.replace(old, new) for a one-character old
RECURSIVE Replace(_, _, _)
Replace(txt, old, new) ==
  IF txt = <<>> THEN <<>>
  ELSE (IF Head(txt) = old THEN new ELSE <<Head(txt)>>)
       \o Replace(Tail(txt), old, new)

RECURSIVE LStrip(_)
LStrip(txt) ==
  IF txt # <<>> /\ Head(txt) \in Whitespace THEN LStrip(Tail(txt)) ELSE txt

RECURSIVE RStrip(_)
RStrip(txt) ==
  IF txt # <<>> /\ txt[Len(txt)] \in Whitespace
  THEN RStrip(SubSeq(txt, 1, Len(txt) - 1))
  ELSE txt

\* str.strip()
Strip(txt) == RStrip(LStrip(txt))

\* str.endswith(c) for a one-character c
EndsWith(txt, c) == txt # <<>> /\ txt[Len(txt)] = c

\* txt[:-1]
DropLast(txt) == SubSeq(txt, 1, Len(txt) - 1)

(* --------------------------- clean_text ------------------------------ *)

\* lines 83-89: the characters replaced by a space, in order
StripChars == <<"'", "\"", "U+201C", "U+201D", ":", ")", "(">>

RECURSIVE ReplaceAllBySpace(_, _)
ReplaceAllBySpace(txt, chars) ==
  IF chars = <<>> THEN txt
  ELSE ReplaceAllBySpace(Replace(txt, Head(chars), <<" ">>), Tail(chars))

\* Terminate without the test of line 93 / 99: the period is always appended
Terminate_always_appends(txt, comma, period, marks) ==
  LET t1 == IF EndsWith(txt, comma) THEN DropLast(txt) \o <<period>> ELSE txt
  IN IF t1 = <<>> THEN Raised(IndexError)
     ELSE Returned(t1 \o <<period>>)

\* lines 91-95 and 97-101: trailing comma to period, then enforce a
\* terminal mark; txt[-1] of an empty text raises IndexError
Terminate(txt, comma, period, marks) ==
  LET t1 == IF EndsWith(txt, comma) THEN DropLast(txt) \o <<period>> ELSE txt
  IN IF t1 = <<>> THEN Raised(IndexError)
     ELSE IF t1[Len(t1)] \notin marks THEN Returned(t1 \o <<period>>)
     ELSE Returned(t1)

\* clean_text whose last branch returns the text instead of raising
clean_text_passthrough(txt, transcript_type) ==
  IF transcript_type = TAILONUM
  THEN Terminate(Strip(ReplaceAllBySpace(Strip(txt), StripChars)),
                 ",", ".", {"?", "!", "."})
  ELSE IF transcript_type = TAIWEN
  THEN Terminate(txt, "U+FF0C", "U+3002", {"U+FF1F", "U+3002", "U+FF01"})
  ELSE Returned(txt)

clean_text(txt, transcript_type) ==
  IF transcript_type = TAILONUM
  THEN Terminate(Strip(ReplaceAllBySpace(Strip(txt), StripChars)),
                 ",", ".", {"?", "!", "."})
  ELSE IF transcript_type = TAIWEN
  THEN Terminate(txt, "U+FF0C", "U+3002", {"U+FF1F", "U+3002", "U+FF01"})
  ELSE Raised(NotImplementedError)

(* ------------------------------ tokenizer ---------------------------- *)

\* the characters a tokenizer's vocabulary may hold, in token-id order
TokenChars ==
  <<"a", "?", ",", "U+4F60", "U+FF0C", "U+3002", "U+FF1F", "U+FF01",
    "U+FF08", "U+FF09", "U+FF1A", "U+FF1B", "!", "(", ")", ":", ";">>

AllChars == {TokenChars[k] : k \in 1..Len(TokenChars)}

TokenId(c) == CHOOSE k \in 1..Len(TokenChars) : TokenChars[k] = c

\* tokenizer(text)["input_ids"]: a tokenizer is the set of characters in its
\* vocabulary; any other character becomes the unknown token 0, and the
\* sequence is wrapped in the special start and end tokens (also 0 here)
RECURSIVE EncodeChars(_, _)
EncodeChars(tokenizer, txt) ==
  IF txt = <<>> THEN <<>>
  ELSE <<IF Head(txt) \in tokenizer THEN TokenId(Head(txt)) ELSE 0>>
       \o EncodeChars(tokenizer, Tail(txt))

encode(tokenizer, txt) == <<0>> \o EncodeChars(tokenizer, txt) \o <<0>>

\* tokenizer.decode(ids, skip_special_tokens=True)
RECURSIVE decode(_, _)
decode(tokenizer, ids) ==
  IF ids = <<>> THEN <<>>
  ELSE (IF Head(ids) = 0 THEN <<>> ELSE <<TokenChars[Head(ids)]>>)
       \o decode(tokenizer, Tail(ids))

(* ---------------------- validate_transcription ----------------------- *)

\* lines 109-110 and 117-118: every mapping entry applied in turn
RECURSIVE ApplyMapping(_, _)
ApplyMapping(txt, mapping) ==
  IF mapping = <<>> THEN txt
  ELSE ApplyMapping(Replace(txt, Head(mapping)[1], Head(mapping)[2]),
                    Tail(mapping))

\* the loop without its early return: the last unacceptable character wins
RECURSIVE LastBad(_, _)
LastBad(txt, k) ==
  IF k > Len(txt) THEN 0
  ELSE LET later == LastBad(txt, k + 1)
       IN IF later # 0 THEN later
          ELSE IF txt[k] \notin ACCEPTABLE_CHARS THEN k ELSE 0

\* lines 111-114: the loop over the characters, leaving at the first one
\* outside ACCEPTABLE_CHARS; 0 when the loop runs to its end
RECURSIVE FirstBad(_, _)
FirstBad(txt, k) ==
  IF k > Len(txt) THEN 0
  ELSE IF txt[k] \notin ACCEPTABLE_CHARS THEN k
  ELSE FirstBad(txt, k + 1)

\* a rejection that returns bad_count instead of bad_count + 1
Rejected_uncounted(bad_count, c, cleaned_transcript) ==
  [raises |-> NoException, result |-> None, bad_count |-> bad_count,
   printed |-> <<[seq |-> bad_count + 1, c |-> c,
                  context |-> cleaned_transcript]>>]

\* a rejection that prints bad_count instead of bad_count + 1
Rejected_stale_number(bad_count, c, cleaned_transcript) ==
  [raises |-> NoException, result |-> None, bad_count |-> bad_count + 1,
   printed |-> <<[seq |-> bad_count, c |-> c,
                  context |-> cleaned_transcript]>>]

\* lines 113-114 and 124-125: the line printed (sequence number, character,
\* cleaned string; line 124 prints no character) and the returned pair
Rejected(bad_count, c, cleaned_transcript) ==
  [raises |-> NoException, result |-> None, bad_count |-> bad_count + 1,
   printed |-> <<[seq |-> bad_count + 1, c |-> c,
                  context |-> cleaned_transcript]>>]

\* lines 115 and 127
Accepted(bad_count, cleaned_transcript) ==
  [raises |-> NoException, result |-> Some(cleaned_transcript),
   bad_count |-> bad_count, printed |-> <<>>]

\* line 129: nothing is returned and nothing is printed
Unimplemented(bad_count) ==
  [raises |-> NotImplementedError, result |-> None, bad_count |-> bad_count,
   printed |-> <<>>]

\* validate_transcription whose taiwen branch round-trips the transcript as
\* passed instead of the mapped one
validate_transcription_roundtrips_input(transcript, transcript_type, bad_count, tokenizer) ==
  IF transcript_type = TAILONUM
  THEN LET cleaned_transcript == ApplyMapping(transcript, CLEAN_MAPPING(TAILONUM))
           k == FirstBad(cleaned_transcript, 1)
       IN IF k # 0
          THEN Rejected(bad_count, cleaned_transcript[k], cleaned_transcript)
          ELSE Accepted(bad_count, cleaned_transcript)
  ELSE IF transcript_type = TAIWEN
  THEN LET cleaned_transcript == ApplyMapping(transcript, CLEAN_MAPPING(TAIWEN))
           decoded_str == decode(tokenizer, encode(tokenizer, transcript))
       IN IF transcript # decoded_str
          THEN Rejected(bad_count, "", cleaned_transcript)
          ELSE Accepted(bad_count, cleaned_transcript)
  ELSE Unimplemented(bad_count)

validate_transcription(transcript, transcript_type, bad_count, tokenizer) ==
  IF transcript_type = TAILONUM
  THEN LET cleaned_transcript == ApplyMapping(transcript, CLEAN_MAPPING(TAILONUM))
           k == FirstBad(cleaned_transcript, 1)
       IN IF k # 0
          THEN Rejected(bad_count, cleaned_transcript[k], cleaned_transcript)
          ELSE Accepted(bad_count, cleaned_transcript)
  ELSE IF transcript_type = TAIWEN
  THEN LET cleaned_transcript == ApplyMapping(transcript, CLEAN_MAPPING(TAIWEN))
           decoded_str == decode(tokenizer, encode(tokenizer, cleaned_transcript))
       IN IF cleaned_transcript # decoded_str
          THEN Rejected(bad_count, "", cleaned_transcript)
          ELSE Accepted(bad_count, cleaned_transcript)
  ELSE Unimplemented(bad_count)

(* ------------------------------- inputs ------------------------------ *)

\* the characters raw transcripts are drawn from, per variant
Alphabet(transcript_type) ==
  IF transcript_type = TAILONUM
  THEN {"a", " ", "'", ",", ".", "U+FF08", "U+FF0C", "U+2014", "U+2605",
        "U+4F60"}
  ELSE {"a", "?", ",", "U+4F60", "U+FF0C", "U+3002", "U+FF1F"}

\* every text of at most n characters over the set chars
RECURSIVE Texts(_, _)
Texts(chars, n) ==
  IF n = 0 THEN {<<>>}
  ELSE LET shorter == Texts(chars, n - 1)
       IN shorter \cup {Append(t, c) : t \in shorter, c \in chars}

\* the tokenizers tried: each lacks some of these characters
MaybeUnknown == {"?", "U+FF1F"}

Tokenizers == {AllChars \ oov : oov \in SUBSET MaybeUnknown}

\* main lines 134-146: only the taiwen variant loads a tokenizer
TokenizersFor(transcript_type) ==
  IF transcript_type = TAIWEN THEN Tokenizers ELSE {{}}

TranscriptTypes == {TAILO, TAILONUM, TAIWEN}

(* --------------------------- the file system ------------------------- *)

Digits == {"0", "1", "2", "3", "4", "5", "6", "7", "8", "9"}

WavSuffix == <<".", "w", "a", "v">>

\* fnmatch of a file name against f"{f_name}-[0-9]*.wav" (line 67): the
\* stem, a hyphen, one digit, anything, then ".wav"
MatchesPattern(name, f_name) ==
  LET n == Len(f_name)
  IN /\ Len(name) >= n + 2 + Len(WavSuffix)
     /\ SubSeq(name, 1, n) = f_name
     /\ name[n + 1] = "-"
     /\ name[n + 2] \in Digits
     /\ SubSeq(name, Len(name) - Len(WavSuffix) + 1, Len(name)) = WavSuffix

\* (wav_dir / spk_name).glob(pattern) over the listing of that directory
Glob(listing, f_name) == {name \in listing : MatchesPattern(name, f_name)}

\* get_wav_from_txt taking the first match instead of unpacking exactly one
get_wav_from_txt_first(txt_path, listing) ==
  LET found == Glob(listing, txt_path.stem)
  IN IF found # {}
     THEN Returned([spk |-> txt_path.spk, name |-> CHOOSE f \in found : TRUE])
     ELSE [raises |-> ValueError, value |-> [spk |-> txt_path.spk, name |-> <<>>]]

\* lines 64-69: [wav_path] = ... unpacks exactly one match and raises
\* ValueError on none or on several
get_wav_from_txt(txt_path, listing) ==
  LET found == Glob(listing, txt_path.stem)
  IN IF Cardinality(found) = 1
     THEN Returned([spk |-> txt_path.spk, name |-> CHOOSE f \in found : TRUE])
     ELSE [raises |-> ValueError, value |-> [spk |-> txt_path.spk, name |-> <<>>]]

\* the audio file names a speaker directory may hold
FilePool ==
  { <<"a", "-", "1", ".", "w", "a", "v">>,
    <<"a", "-", "1", "2", ".", "w", "a", "v">>,
    <<"a", "-", "x", ".", "w", "a", "v">>,
    <<"b", "-", "1", ".", "w", "a", "v">> }

\* the transcript files of the corpus (speaker directory and stem), in the
\* two orders rglob may yield them
ScanOrders ==
  LET forward == << [spk |-> "s1", stem |-> <<"a">>],
                    [spk |-> "s1", stem |-> <<"b">>],
                    [spk |-> "s2", stem |-> <<"a">>],
                    [spk |-> "s2", stem |-> <<"b">>] >>
  IN {forward, [k \in 1..Len(forward) |-> forward[Len(forward) + 1 - k]]}

\* line 165: the first n transcript files of a scan, n at most MaxRecords
TxtLists ==
  UNION {{SubSeq(order, 1, n) : n \in {m \in 0..MaxRecords : m <= Len(order)}} :
         order \in ScanOrders}

\* the transcripts a json file may hold, per variant
RawPool(transcript_type) ==
  IF transcript_type = TAILONUM
  THEN { <<"a">>, <<"U+2605">>, <<" ">>, <<"'">>, <<"a", "U+FF08">>,
         <<"a", "U+FF0C">> }
  ELSE IF transcript_type = TAIWEN
  THEN { <<"U+4F60">>, <<"a", "?">>, <<>> }
  ELSE { <<"a">> }

(* ------------------------------- state ------------------------------- *)

VARIABLES
  pc,               \* where main is: config, resolve, normalize, validate,
                    \* write, done, aborted (an exception left main), idle
  fault,            \* the exception that left main
  arg,              \* args.transcript_type
  transcript_type,
  tokenizer,
  TAT_txt_list,     \* line 165
  TAT_wav_list,     \* line 166, as far as built
  globbed,          \* what each glob of line 68 yielded
  raw,              \* the transcript read from each json file (line 75)
  transcription,    \* TAT_df["transcription"], as far as built
  idx,              \* rows of the loop of line 182 done
  bad_count,
  output_buffer,
  printed,          \* the lines printed by validate_transcription
  manifest,         \* the rows written to the csv file, None until written
  t_pc,             \* the text specification: start, cleaned, again, validated
  t_type,
  t_tokenizer,
  t_raw,
  t_norm,           \* clean_text(t_raw)
  t_again,          \* clean_text(clean_text(t_raw))
  t_in,             \* the transcript passed to validate_transcription
  t_valid           \* validate_transcription(t_in)

mainVars ==
  <<pc, fault, arg, transcript_type, tokenizer, TAT_txt_list, TAT_wav_list,
    globbed, raw, transcription, idx, bad_count, output_buffer, printed,
    manifest>>

textVars == <<t_pc, t_type, t_tokenizer, t_raw, t_norm, t_again, t_in, t_valid>>

vars == <<mainVars, textVars>>

(* ------------------------------- main -------------------------------- *)

Args == {"tailo", "taiwen", "tailonum", "other"}

mainIdle ==
  /\ pc = "idle" /\ fault = NoException /\ arg = "" /\ transcript_type = ""
  /\ tokenizer = {} /\ TAT_txt_list = <<>> /\ TAT_wav_list = <<>>
  /\ globbed = <<>> /\ raw = <<>> /\ transcription = <<>> /\ idx = 0
  /\ bad_count = 0 /\ output_buffer = <<>> /\ printed = <<>>
  /\ manifest = None

textIdle ==
  /\ t_pc = "idle" /\ t_type = "" /\ t_tokenizer = {} /\ t_raw = <<>>
  /\ t_norm = Raised("pending") /\ t_again = Raised("pending")
  /\ t_in = <<>> /\ t_valid = [Unimplemented(0) EXCEPT !.raises = "pending"]

\* the state when main is entered
Init ==
  /\ pc = "config" /\ fault = NoException /\ arg \in Args
  /\ transcript_type = "" /\ tokenizer = {} /\ TAT_txt_list = <<>>
  /\ TAT_wav_list = <<>> /\ globbed = <<>> /\ raw = <<>>
  /\ transcription = <<>> /\ idx = 0 /\ bad_count = 0
  /\ output_buffer = <<>> /\ printed = <<>> /\ manifest = None
  /\ textIdle

Abort(e) == pc' = "aborted" /\ fault' = e

\* lines 134-165: the variant and its tokenizer, then the transcript files
Config ==
  /\ pc = "config"
  /\ IF arg = "other"
     THEN /\ Abort(NotImplementedError)
          /\ UNCHANGED <<transcript_type, tokenizer, TAT_txt_list>>
     ELSE /\ transcript_type' =
               (IF arg = "tailo" THEN TAILO
                ELSE IF arg = "taiwen" THEN TAIWEN ELSE TAILONUM)
          /\ tokenizer' \in TokenizersFor(transcript_type')
          /\ TAT_txt_list' \in TxtLists
          /\ pc' = (IF TAT_txt_list' = <<>> THEN "write" ELSE "resolve")
          /\ UNCHANGED fault
  /\ UNCHANGED <<arg, TAT_wav_list, globbed, raw, transcription, idx,
                 bad_count, output_buffer, printed, manifest>>
  /\ UNCHANGED textVars

\* line 166, one transcript file: its speaker directory is listed and
\* globbed, and the single match is kept
Resolve ==
  /\ pc = "resolve"
  /\ LET txt_path == TAT_txt_list[Len(TAT_wav_list) + 1]
     IN \E listing \in SUBSET FilePool :
          LET wav == get_wav_from_txt(txt_path, listing)
          IN /\ globbed' = Append(globbed, Glob(listing, txt_path.stem))
             /\ IF wav.raises # NoException
                THEN Abort(wav.raises) /\ UNCHANGED TAT_wav_list
                ELSE /\ TAT_wav_list' = Append(TAT_wav_list, wav.value)
                     /\ pc' = (IF Len(TAT_wav_list') = Len(TAT_txt_list)
                               THEN "normalize" ELSE "resolve")
                     /\ UNCHANGED fault
  /\ UNCHANGED <<arg, transcript_type, tokenizer, TAT_txt_list, raw,
                 transcription, idx, bad_count, output_buffer, printed,
                 manifest>>
  /\ UNCHANGED textVars

\* line 178, one row: get_transcription_from_json reads the transcript of
\* the variant from the json file and cleans it
Normalize ==
  /\ pc = "normalize"
  /\ \E txt \in RawPool(transcript_type) :
       LET cleaned == clean_text(txt, transcript_type)
       IN /\ raw' = Append(raw, txt)
          /\ IF cleaned.raises # NoException
             THEN Abort(cleaned.raises) /\ UNCHANGED transcription
             ELSE /\ transcription' = Append(transcription, cleaned.value)
                  /\ pc' = (IF Len(transcription') = Len(TAT_txt_list)
                            THEN "validate" ELSE "normalize")
                  /\ UNCHANGED fault
  /\ UNCHANGED <<arg, transcript_type, tokenizer, TAT_txt_list, TAT_wav_list,
                 globbed, idx, bad_count, output_buffer, printed, manifest>>
  /\ UNCHANGED textVars

\* the loop taking the audio path by the number of rows buffered instead of
\* by the row of the frame
Validate_path_by_buffer ==
  /\ pc = "validate"
  /\ LET wav_path == TAT_wav_list[Len(output_buffer) + 1]
         transcript == transcription[idx + 1]
         r == validate_transcription(transcript, transcript_type, bad_count,
                                     tokenizer)
     IN IF r.raises # NoException
        THEN /\ Abort(r.raises)
             /\ UNCHANGED <<idx, bad_count, output_buffer, printed>>
        ELSE /\ bad_count' = r.bad_count
             /\ printed' = printed \o r.printed
             /\ output_buffer' =
                  (IF r.result # None
                   THEN Append(output_buffer,
                               [path |-> wav_path, text |-> r.result[1]])
                   ELSE output_buffer)
             /\ idx' = idx + 1
             /\ pc' = (IF idx' = Len(TAT_txt_list) THEN "write" ELSE "validate")
             /\ UNCHANGED fault
  /\ UNCHANGED <<arg, transcript_type, tokenizer, TAT_txt_list, TAT_wav_list,
                 globbed, raw, transcription, manifest>>
  /\ UNCHANGED textVars

\* lines 182-192, one row of the loop
Validate ==
  /\ pc = "validate"
  /\ LET wav_path == TAT_wav_list[idx + 1]
         transcript == transcription[idx + 1]
         r == validate_transcription(transcript, transcript_type, bad_count,
                                     tokenizer)
     IN IF r.raises # NoException
        THEN /\ Abort(r.raises)
             /\ UNCHANGED <<idx, bad_count, output_buffer, printed>>
        ELSE /\ bad_count' = r.bad_count
             /\ printed' = printed \o r.printed
             /\ output_buffer' =
                  (IF r.result # None
                   THEN Append(output_buffer,
                               [path |-> wav_path, text |-> r.result[1]])
                   ELSE output_buffer)
             /\ idx' = idx + 1
             /\ pc' = (IF idx' = Len(TAT_txt_list) THEN "write" ELSE "validate")
             /\ UNCHANGED fault
  /\ UNCHANGED <<arg, transcript_type, tokenizer, TAT_txt_list, TAT_wav_list,
                 globbed, raw, transcription, manifest>>
  /\ UNCHANGED textVars

\* line 194: the buffered rows go to the csv file
Write ==
  /\ pc = "write"
  /\ manifest' = Some(output_buffer)
  /\ pc' = "done"
  /\ UNCHANGED <<fault, arg, transcript_type, tokenizer, TAT_txt_list,
                 TAT_wav_list, globbed, raw, transcription, idx, bad_count,
                 output_buffer, printed>>
  /\ UNCHANGED textVars

Next == Config \/ Resolve \/ Normalize \/ Validate \/ Write

Spec == Init /\ [][Next]_vars

(* ------------- clean_text and validate_transcription alone ------------ *)

\* one raw transcript of at most MaxLen characters, for any variant and
\* tokenizer
InitText ==
  /\ mainIdle
  /\ t_pc = "start"
  /\ t_type \in TranscriptTypes
  /\ t_tokenizer \in TokenizersFor(t_type)
  /\ t_raw \in Texts(Alphabet(t_type), MaxLen)
  /\ t_norm = Raised("pending") /\ t_again = Raised("pending")
  /\ t_in = <<>> /\ t_valid = [Unimplemented(0) EXCEPT !.raises = "pending"]

\* clean_text(t_raw, t_type)
Clean ==
  /\ t_pc = "start"
  /\ t_norm' = clean_text(t_raw, t_type)
  /\ t_pc' = "cleaned"
  /\ UNCHANGED <<t_type, t_tokenizer, t_raw, t_again, t_in, t_valid>>
  /\ UNCHANGED mainVars

\* clean_text(clean_text(t_raw, t_type), t_type): an exception of the inner
\* call leaves the whole expression
CleanAgain ==
  /\ t_pc = "cleaned"
  /\ t_again' = (IF t_norm.raises # NoException THEN t_norm
                 ELSE clean_text(t_norm.value, t_type))
  /\ t_pc' = "again"
  /\ UNCHANGED <<t_type, t_tokenizer, t_raw, t_norm, t_in, t_valid>>
  /\ UNCHANGED mainVars

\* validate_transcription on the cleaned transcript, as main calls it, or
\* on the raw one
ValidateText ==
  /\ t_pc = "again"
  /\ t_in' \in {t_raw} \cup
               (IF t_norm.raises = NoException THEN {t_norm.value} ELSE {})
  /\ t_valid' = validate_transcription(t_in', t_type, 0, t_tokenizer)
  /\ t_pc' = "validated"
  /\ UNCHANGED <<t_type, t_tokenizer, t_raw, t_norm, t_again>>
  /\ UNCHANGED mainVars

NextText == Clean \/ CleanAgain \/ ValidateText

SpecText == InitText /\ [][NextText]_vars

(* ============================ properties ============================= *)

InValidation == pc \in {"validate", "write", "done"}

\* a map applied to all characters at once: each key character becomes its
\* replacement, every other character stays
RECURSIVE Substituted(_, _)
Substituted(txt, mapping) ==
  IF txt = <<>> THEN <<>>
  ELSE LET hits == {k \in 1..Len(mapping) : mapping[k][1] = Head(txt)}
       IN (IF hits = {} THEN <<Head(txt)>>
           ELSE mapping[CHOOSE k \in hits : TRUE][2])
          \o Substituted(Tail(txt), mapping)

\* whether the validator keeps record k of the run
Keeps(k) ==
  validate_transcription(transcription[k], transcript_type, 0,
                         tokenizer).result # None

\* the rows of the kept records among the first n, in input order
RECURSIVE RowsOf(_)
RowsOf(n) ==
  IF n = 0 THEN <<>>
  ELSE IF Keeps(n)
  THEN Append(RowsOf(n - 1),
              [path |-> TAT_wav_list[n],
               text |-> Substituted(transcription[n],
                                    CLEAN_MAPPING(transcript_type))])
  ELSE RowsOf(n - 1)

Dropped(n) == Cardinality({k \in 1..n : ~Keeps(k)})

(* ------------------------------- C1 ---------------------------------- *)

\* C1: get_wav_from_txt returns a path only when the glob of the record's
\* pattern in its speaker directory yields exactly one file, and that file is
\* the path; on no match or on several the run ends with the unpacking
\* error at that record, no candidate is kept, and the manifest is never
\* written.
C1_ExactlyOneOrFatal ==
  /\ Len(globbed) \in {Len(TAT_wav_list), Len(TAT_wav_list) + 1}
  /\ \A k \in 1..Len(TAT_wav_list) :
       /\ globbed[k] = {TAT_wav_list[k].name}
       /\ TAT_wav_list[k].spk = TAT_txt_list[k].spk
       /\ MatchesPattern(TAT_wav_list[k].name, TAT_txt_list[k].stem)
  /\ \A k \in 1..Len(globbed) :
       Cardinality(globbed[k]) # 1 =>
         /\ k = Len(TAT_wav_list) + 1
         /\ pc = "aborted" /\ fault = ValueError
         /\ manifest = None
  /\ Len(globbed) = Len(TAT_wav_list) + 1 =>
       Cardinality(globbed[Len(globbed)]) # 1

\* a record resolved, then a record with two matching files ended the run
C1_Witness ==
  /\ pc = "aborted" /\ fault = ValueError
  /\ Len(TAT_wav_list) >= 1
  /\ Cardinality(globbed[Len(globbed)]) >= 2

(* ------------------------------- C2 ---------------------------------- *)

\* C2: for tailonum and taiwen, after each row of the loop the rows
\* buffered plus bad_count equal the rows done, and in a run that wrote the
\* manifest its rows plus bad_count equal the number of transcript files.
C2_Conservation ==
  transcript_type \in {TAILONUM, TAIWEN} =>
    /\ InValidation => Len(output_buffer) + bad_count = idx
    /\ pc = "done" =>
         Len(manifest[1]) + bad_count = Len(TAT_txt_list)

\* a finished run that kept a record and dropped another
C2_Witness ==
  /\ pc = "done" /\ transcript_type \in {TAILONUM, TAIWEN}
  /\ bad_count >= 1 /\ Len(manifest[1]) >= 1

(* ------------------------------- C8 ---------------------------------- *)

C9_RejectionsNumbered ==
  /\ ~InValidation => bad_count = 0 /\ printed = <<>>
  /\ InValidation => bad_count = Dropped(idx)
  /\ Len(printed) = bad_count
  /\ \A k \in 1..Len(printed) : printed[k].seq = k

\* two rejections with a kept record between them
C9_Witness ==
  /\ idx >= 3 /\ ~Keeps(1) /\ Keeps(2) /\ ~Keeps(3)
  /\ bad_count = 2 /\ Len(printed) = 2

(* ------------------------------- C7 ---------------------------------- *)

\* whether a raw transcript is empty (taiwen) or is empty once trimmed and
\* stripped of the replaced characters (tailonum)
Degenerate(txt, type) ==
  IF type = TAILONUM
  THEN Strip(ReplaceAllBySpace(Strip(txt), StripChars)) = <<>>
  ELSE txt = <<>>

\* C7: a record whose transcript is empty (taiwen) or becomes empty after
\* trimming and stripping (tailonum) is a per-record rejection: the run is
\* not ended by an exception, and once the loop has passed the record
\* bad_count has counted it and no row was buffered for it.
C7_EmptyIsRejectedNotFatal ==
  transcript_type \in {TAILONUM, TAIWEN} =>
    \A k \in 1..Len(raw) :
      Degenerate(raw[k], transcript_type) =>
        /\ pc # "aborted"
        /\ fault = NoException
        /\ k <= idx => bad_count >= 1 /\ Len(output_buffer) < idx

(* ------------------------------- C10 --------------------------------- *)

StrippedChars == {StripChars[k] : k \in 1..Len(StripChars)}

\* C10: for tailonum no buffered or written row holds a character that
\* clean_text replaces by a space, and every row's text ends with ? ! or .
\* with no comma right before that mark.
C10_NoStrippedCharInRows ==
  transcript_type = TAILONUM =>
    \A k \in 1..Len(output_buffer) :
      LET text == output_buffer[k].text
      IN /\ \A j \in 1..Len(text) : text[j] \notin StrippedChars
         /\ text # <<>> /\ text[Len(text)] \in {"?", "!", "."}
         /\ Len(text) >= 2 => text[Len(text) - 1] # ","

(* ------------------------------- C3 ---------------------------------- *)

BadPositions(txt) == {k \in 1..Len(txt) : txt[k] \notin ACCEPTABLE_CHARS}

Min(S) == CHOOSE k \in S : \A j \in S : k <= j

\* C3: for tailonum, with c the transcript after the full-width-to-ASCII
\* map, validate_transcription returns c and leaves bad_count when every
\* character of c is acceptable; otherwise it returns no text, adds one to
\* bad_count and prints the leftmost unacceptable character of c with c.
C3_CharsetValidation ==
  (t_pc = "validated" /\ t_type = TAILONUM) =>
    LET c == Substituted(t_in, CLEAN_MAPPING_TAILONUM)
    IN /\ t_valid.raises = NoException
       /\ IF BadPositions(c) = {}
          THEN /\ t_valid.result = Some(c)
               /\ t_valid.bad_count = 0
               /\ t_valid.printed = <<>>
          ELSE /\ t_valid.result = None
               /\ t_valid.bad_count = 1
               /\ t_valid.printed =
                    <<[seq |-> 1, c |-> c[Min(BadPositions(c))],
                       context |-> c]>>

\* a rejected transcript that the map lengthened and that holds two
\* different unacceptable characters
C3_Witness ==
  /\ t_pc = "validated" /\ t_type = TAILONUM
  /\ t_valid.result = None
  /\ Len(t_valid.printed[1].context) > Len(t_in)
  /\ \E j, k \in BadPositions(t_valid.printed[1].context) :
       t_valid.printed[1].context[j] # t_valid.printed[1].context[k]

(* ------------------------------- C4 ---------------------------------- *)

RoundTrips(tok, txt) == decode(tok, encode(tok, txt)) = txt

\* C4 as stated: for taiwen the transcript x is accepted when
\* decode(encode(x)) = x and rejected when they differ; an accepted x is
\* returned after the ASCII-to-full-width map, a rejected one returns no text.
C4_RoundTripOfInput ==
  (t_pc = "validated" /\ t_type = TAIWEN) =>
    /\ RoundTrips(t_tokenizer, t_in) =>
         t_valid.result = Some(Substituted(t_in, CLEAN_MAPPING_TAIWEN))
    /\ ~RoundTrips(t_tokenizer, t_in) => t_valid.result = None

\* C4 amended: for taiwen, with c the transcript after the ASCII-to-full-width
\* map, the transcript is accepted (and c returned) exactly when
\* decode(encode(c)) = c, and is rejected with no text when they differ.
C4_RoundTripOfCleaned ==
  (t_pc = "validated" /\ t_type = TAIWEN) =>
    LET c == Substituted(t_in, CLEAN_MAPPING_TAIWEN)
    IN /\ t_valid.raises = NoException
       /\ RoundTrips(t_tokenizer, c) =>
            t_valid.result = Some(c) /\ t_valid.bad_count = 0
       /\ ~RoundTrips(t_tokenizer, c) =>
            t_valid.result = None /\ t_valid.bad_count = 1

\* a cleaned transcript main would pass on, which the tokenizer round-trips
\* but whose mapped form it does not: it is rejected
C4_Witness ==
  /\ t_pc = "validated" /\ t_type = TAIWEN
  /\ t_norm.raises = NoException /\ t_in = t_norm.value
  /\ RoundTrips(t_tokenizer, t_in)
  /\ t_valid.result = None

(* ------------------------------- C5 ---------------------------------- *)

\* C5: clean_text applied to its own result gives that result again: where
\* clean_text returns, the second application returns the same text (no
\* second terminal mark, no further change of whitespace or punctuation),
\* and where it raises, the double application raises the same exception.
C5_Idempotent ==
  t_pc \in {"again", "validated"} =>
    /\ t_again = t_norm
    /\ t_norm.raises = NoException => t_again.value = t_norm.value

\* a tailonum transcript that was trimmed, stripped and had its final comma
\* turned into a period, then cleaned again
C5_Witness ==
  /\ t_pc = "again" /\ t_type = TAILONUM
  /\ t_norm.raises = NoException
  /\ Len(t_raw) = MaxLen
  /\ t_raw[1] = " " /\ t_raw[Len(t_raw)] = ","
  /\ t_norm.value[Len(t_norm.value)] = "."
  /\ Len(t_norm.value) < Len(t_raw)

(* ------------------------------- C6 ---------------------------------- *)

\* C6 as stated: for tailo clean_text returns the raw text unchanged, and
\* the only exception is the NotImplementedError of validate_transcription.
C6_TailoPassthrough ==
  t_type = TAILO =>
    /\ t_pc \in {"cleaned", "again", "validated"} => t_norm = Returned(t_raw)
    /\ t_pc = "validated" => t_valid.raises = NotImplementedError

\* C6 amended: for tailo clean_text returns nothing: it raises
\* NotImplementedError for every raw text, as does cleaning twice, and
\* validate_transcription raises NotImplementedError too, returning no text,
\* printing nothing and leaving bad_count.
C6_TailoNotImplemented ==
  t_type = TAILO =>
    /\ t_pc \in {"cleaned", "again", "validated"} =>
         t_norm = Raised(NotImplementedError)
    /\ t_pc \in {"again", "validated"} =>
         t_again = Raised(NotImplementedError)
    /\ t_pc = "validated" =>
         /\ t_valid.raises = NotImplementedError
         /\ t_valid.result = None
         /\ t_valid.printed = <<>>
         /\ t_valid.bad_count = 0

\* a non-empty tailo transcript, cleaned and validated
C6_Witness ==
  /\ t_type = TAILO /\ t_pc = "validated"
  /\ t_raw # <<>> /\ t_in = t_raw

====
